---------------------------- MODULE Spec2Model ----------------------------
(***************************************************************************)
(* Model of the AOTF protocol engine of                                    *)
(* src/pymodaq_plugins_crystal_technology/hardware/aods_controller.py.     *)
(*                                                                         *)
(* Strings are sequences of one-character strings, so that split, lstrip   *)
(* and rstrip act on characters as the Python methods do.  Numbers are     *)
(* records [f, v]: f = FALSE is a Python int of value v, f = TRUE is a     *)
(* Python float whose value is v hundredths.  Time is counted in poll      *)
(* intervals (the 0.1 s of time.sleep); transport calls take no time,      *)
(* but for a read over the lazy transport, which takes up to one interval. *)
(***************************************************************************)
EXTENDS Integers, Sequences, FiniteSets, TLC

(***************************************************************************)
(* Bounds of the model.                                                    *)
(***************************************************************************)
\* handles the transport can hand out are 1..MaxHandle
MaxHandle == 2
\* the largest channel argument tried; the others are -1, 0, 3 and 7
MaxChan == 8
\* a command is written only while at most MaxStale unread bytes are pending
MaxStale == 2

(***************************************************************************)
(* Program constants.                                                      *)
(***************************************************************************)
\* self._handle = None
NoHandle == 0
\* self._nchannels
nchannels == 8
\* self._timeout, in seconds
timeout == 10
\* self._amplitude_int_max
amplitude_int_max == 16383
\* default length of _read
ReadLength == 256
\* time.sleep(0.1): poll intervals per second
PollsPerSecond == 10

CR == "\r"
LF == "\n"
CRLF == <<CR, LF>>

(***************************************************************************)
(* Python string methods.                                                  *)
(***************************************************************************)
Chars(s) == {s[i] : i \in 1..Len(s)}

Take(s, n) == SubSeq(s, 1, IF n < Len(s) THEN n ELSE Len(s))

Drop(s, n) == SubSeq(s, (IF n < Len(s) THEN n ELSE Len(s)) + 1, Len(s))

StartsWith(s, p) == Len(s) >= Len(p) /\ SubSeq(s, 1, Len(p)) = p

\* str.split('\r\n'): the pieces between the occurrences of CR LF
RECURSIVE SplitFrom(_, _)
SplitFrom(s, cur) ==
    IF s = <<>> THEN <<cur>>
    ELSE IF StartsWith(s, CRLF) THEN <<cur>> \o SplitFrom(Drop(s, 2), <<>>)
    ELSE SplitFrom(Tail(s), Append(cur, Head(s)))

split(s) == SplitFrom(s, <<>>)

\* str.lstrip(chars): drops leading characters that belong to the set chars
RECURSIVE lstrip(_, _)
lstrip(s, chars) ==
    IF s # <<>> /\ Head(s) \in chars THEN lstrip(Tail(s), chars) ELSE s

\* str.rstrip(chars): drops trailing characters that belong to the set chars
RECURSIVE rstrip(_, _)
rstrip(s, chars) ==
    IF s # <<>> /\ s[Len(s)] \in chars THEN rstrip(SubSeq(s, 1, Len(s) - 1), chars)
    ELSE s

(***************************************************************************)
(* Python numbers and their formatting in an f-string.                     *)
(***************************************************************************)
PyInt(n) == [f |-> FALSE, v |-> n]
PyFloat(h) == [f |-> TRUE, v |-> h]

\* the value in hundredths
Hundredths(x) == IF x.f THEN x.v ELSE x.v * 100

Digit(d) == <<"0", "1", "2", "3", "4", "5", "6", "7", "8", "9">>[d + 1]

RECURSIVE NatStr(_)
NatStr(n) == IF n < 10 THEN <<Digit(n)>> ELSE Append(NatStr(n \div 10), Digit(n % 10))

IntStr(n) == IF n < 0 THEN <<"-">> \o NatStr(-n) ELSE NatStr(n)

\* repr of a float that is a whole number of hundredths: "200.0", "8191.5", "163.83"
FloatStr(h) ==
    LET a == IF h < 0 THEN -h ELSE h
        frac == a % 100
        digits == IF frac % 10 = 0 THEN <<Digit(frac \div 10)>>
                  ELSE <<Digit(frac \div 10), Digit(frac % 10)>>
    IN  (IF h < 0 THEN <<"-">> ELSE <<>>) \o NatStr(a \div 100) \o <<".">> \o digits

\* f'{x}'
Format(x) == IF x.f THEN FloatStr(x.v) ELSE IntStr(x.v)

\* portion.closed(lo, hi) contains x; lo and hi in hundredths
InClosed(x, lo, hi) == lo <= Hundredths(x) /\ Hundredths(x) <= hi

(***************************************************************************)
(* Command strings of the device protocol.                                 *)
(***************************************************************************)
BoardIdSerial == <<"B", "o", "a", "r", "d", "I", "d", " ", "S", "e", "r", "i", "a", "l">>
BoardIdDate == <<"B", "o", "a", "r", "d", "I", "d", " ", "D", "a", "t", "e">>
ddsReset == <<"d", "d", "s", " ", "r", "e", "s", "e", "t">>
DdsFrequency == <<"D", "d", "s", " ", "F", "r", "e", "q", "u", "e", "n", "c", "y", " ">>
DdsAmplitude == <<"D", "d", "s", " ", "A", "m", "p", "l", "i", "t", "u", "d", "e", " ">>
DonePayload == <<"d", "o", "n", "e">>

\* f'Dds Frequency {channel} {frequency}'
FrequencyMHzCommand(frequency, channel) ==
    DdsFrequency \o IntStr(channel) \o <<" ">> \o Format(frequency)

\* mutant: the Hz marker is left out
FrequencyHzCommand_unmarked(frequency, channel) ==
    DdsFrequency \o IntStr(channel) \o <<" ">> \o Format(frequency)

\* f'Dds Frequency {channel} !{frequency}'
FrequencyHzCommand(frequency, channel) ==
    DdsFrequency \o IntStr(channel) \o <<" ", "!">> \o Format(frequency)

\* f'Dds Amplitude {channel} {amplitude}'
AmplitudeCommand(amplitude, channel) ==
    DdsAmplitude \o IntStr(channel) \o <<" ">> \o Format(amplitude)

(***************************************************************************)
(* The calibration table (calibration.toml) and numpy's Polynomial.        *)
(***************************************************************************)
calibration ==
    [RF1 |-> [coeffs |-> <<0, 1>>, domain |-> <<500, 600>>],
     RF2 |-> [coeffs |-> <<50, 2>>, domain |-> <<400, 450>>]]

calib_ids == DOMAIN calibration

\* Polynomial(coeffs, domain=domain, window=domain)
Polynomial(id) ==
    [coef |-> calibration[id].coeffs,
     domain |-> calibration[id].domain,
     window |-> calibration[id].domain]

\* self._calibration = None
NoCalibration == [coef |-> <<>>, domain |-> <<>>, window |-> <<>>]

\* polyutils.mapparms(old, new): the offset and scale of the map old -> new
MapOff(old, new) == (old[2] * new[1] - old[1] * new[2]) \div (old[2] - old[1])
MapScl(old, new) == (new[2] - new[1]) \div (old[2] - old[1])

\* polyval by Horner's rule, x and the result in hundredths
RECURSIVE Horner(_, _, _)
Horner(coef, i, x) ==
    IF i = Len(coef) THEN coef[i] * 100
    ELSE coef[i] * 100 + (x * Horner(coef, i + 1, x)) \div 100

\* Polynomial.__call__: always a float
PolyCall(p, x) ==
    LET arg == MapOff(p.domain, p.window) * 100 + MapScl(p.domain, p.window) * Hundredths(x)
    IN  PyFloat(Horner(p.coef, 1, arg))

(***************************************************************************)
(* Inputs of the operations.                                               *)
(***************************************************************************)
Handles == 1..MaxHandle
ControllerIndexes == {0, 1}
Channels == {-1, 0, 3, nchannels - 1, MaxChan}
Frequencies == {PyFloat(20000), PyInt(80)}
Wavelengths == {PyInt(420), PyInt(499), PyInt(500), PyInt(550), PyInt(600), PyInt(601), PyInt(700)}
AmplitudeInts == {PyInt(-1), PyInt(0), PyInt(8000), PyInt(amplitude_int_max), PyInt(amplitude_int_max + 1)}
Percents == {PyInt(0), PyInt(50), PyInt(100), PyInt(101)}
QueryCommands == {<<"a">>, <<"d", "o">>}
CalibrationKeys == {"RF1", "RF2", "XX"}

(***************************************************************************)
(* The device behind the transport.  It answers a written command line     *)
(* either not at all or with the echoed command, a payload line and the    *)
(* completion marker, each followed by CR LF.                              *)
(***************************************************************************)
Payloads == {DonePayload}

Frame(msg, payload) == msg \o CRLF \o payload \o CRLF \o <<"*">> \o CRLF

\* message is the line as written, with its trailing CR
DeviceReplies(message) ==
    {<<>>} \cup {Frame(SubSeq(message, 1, Len(message) - 1), p) : p \in Payloads}

(***************************************************************************)
(* State.                                                                  *)
(***************************************************************************)
VARIABLES
    handle,     \* self._handle
    calib,      \* self._calibration
    opened,     \* transport: the handles handed out and not closed
    pending,    \* transport: the bytes of the device not yet read
    pc,         \* "idle", or "loop" while _loop_read runs
    read,       \* _loop_read: the accumulated buffer
    clock,      \* _loop_read: perf_counter() - start, in poll intervals
    op,         \* the last operation called: [name, a, c, m]
    outcome,    \* how it ended: "running", "returned", "timeout" or the error
    ret,        \* the string a query returned
    elapsed,    \* the time the last query took, in poll intervals
    closed,     \* a close has succeeded and no open has succeeded since
    sent,       \* the lines the last operation passed to AotfWrite
    tcalls,     \* the transport calls the last operation made: [fn, h]
    failed      \* the transport call that returned 0 in the last operation, or ""

vars == <<handle, calib, opened, pending, pc, read, clock, op, outcome, ret, elapsed, closed, sent, tcalls, failed>>

TimeoutTicks == timeout * PollsPerSecond

Op(name, a, c, m) == [name |-> name, a |-> a, c |-> c, m |-> m]
NoArg == PyInt(0)

Call(fn) == [fn |-> fn, h |-> handle]

Init ==
    /\ handle = NoHandle
    /\ calib = NoCalibration
    /\ opened = {}
    /\ pending = <<>>
    /\ pc = "idle"
    /\ read = <<>>
    /\ clock = 0
    /\ op = Op("__init__", NoArg, 0, <<>>)
    /\ outcome = "returned"
    /\ ret = <<>>
    /\ elapsed = 0
    /\ closed = FALSE
    /\ sent = <<>>
    /\ tcalls = {}
    /\ failed = ""

\* an operation is called when none is running
Ready == pc = "idle" /\ Len(pending) <= MaxStale

\* the operation o ends with outcome out, having written s and called t
End(o, out, r, e, s, t) ==
    /\ op' = o
    /\ outcome' = out
    /\ ret' = r
    /\ elapsed' = e
    /\ sent' = s
    /\ tcalls' = t
    /\ pc' = "idle"
    /\ read' = <<>>
    /\ clock' = 0

(***************************************************************************)
(* The guards.                                                             *)
(***************************************************************************)
\* _check_handle passes
check_handle == handle # NoHandle

\* _check_channel passes: it raises when channel < 0 and channel >= nchannels
check_channel(channel) == ~(channel < 0 /\ channel >= nchannels)

(***************************************************************************)
(* Handle lifecycle.                                                       *)
(***************************************************************************)
\* what dll.AotfOpen can return: 0, or a handle that is not open
AotfOpenResults == {NoHandle} \cup (Handles \ opened)

\* mutant: a successful open drops the active calibration
open_resetting ==
    /\ Ready
    /\ \E controller_index \in ControllerIndexes, r \in AotfOpenResults :
         LET o == Op("open", PyInt(controller_index), 0, <<>>)
             t == {[fn |-> "AotfOpen", h |-> controller_index]}
         IN  IF r # 0
             THEN /\ handle' = r
                  /\ closed' = FALSE
                  /\ opened' = opened \cup {r}
                  /\ End(o, "returned", <<>>, 0, <<>>, t)
                  /\ failed' = ""
                  /\ calib' = NoCalibration
             ELSE /\ UNCHANGED <<handle, closed, opened, calib>>
                  /\ End(o, "OpenError", <<>>, 0, <<>>, t)
                  /\ failed' = "AotfOpen"
    /\ UNCHANGED pending

open ==
    /\ Ready
    /\ \E controller_index \in ControllerIndexes, r \in AotfOpenResults :
         LET o == Op("open", PyInt(controller_index), 0, <<>>)
             t == {[fn |-> "AotfOpen", h |-> controller_index]}
         IN  IF r # 0
             THEN /\ handle' = r
                  /\ closed' = FALSE
                  /\ opened' = opened \cup {r}
                  /\ End(o, "returned", <<>>, 0, <<>>, t)
                  /\ failed' = ""
             ELSE /\ UNCHANGED <<handle, closed, opened>>
                  /\ End(o, "OpenError", <<>>, 0, <<>>, t)
                  /\ failed' = "AotfOpen"
    /\ UNCHANGED <<calib, pending>>

\* mutant: the handle is cleared before the transport answers
close_clearing ==
    /\ Ready
    /\ LET o == Op("close", NoArg, 0, <<>>)
       IN  IF ~check_handle
           THEN /\ End(o, "NotOpenError", <<>>, 0, <<>>, {})
                /\ UNCHANGED <<handle, closed, opened>>
                /\ failed' = ""
           ELSE \E r \in {0, 1} :
                  /\ handle' = NoHandle
                  /\ failed' = IF r = 0 THEN "AotfClose" ELSE ""
                  /\ IF r = 0
                     THEN /\ End(o, "CloseError", <<>>, 0, <<>>, {Call("AotfClose")})
                          /\ UNCHANGED <<closed, opened>>
                     ELSE /\ End(o, "returned", <<>>, 0, <<>>, {Call("AotfClose")})
                          /\ closed' = TRUE
                          /\ opened' = opened \ {handle}
    /\ UNCHANGED <<calib, pending>>

close ==
    /\ Ready
    /\ LET o == Op("close", NoArg, 0, <<>>)
       IN  IF ~check_handle
           THEN /\ End(o, "NotOpenError", <<>>, 0, <<>>, {})
                /\ UNCHANGED <<handle, closed, opened>>
                /\ failed' = ""
           ELSE \E r \in {0, 1} :
                  IF r = 0
                  THEN /\ End(o, "CloseError", <<>>, 0, <<>>, {Call("AotfClose")})
                       /\ UNCHANGED <<handle, closed, opened>>
                       /\ failed' = "AotfClose"
                  ELSE /\ End(o, "returned", <<>>, 0, <<>>, {Call("AotfClose")})
                       /\ failed' = ""
                       /\ handle' = NoHandle
                       /\ closed' = TRUE
                       /\ opened' = opened \ {handle}
    /\ UNCHANGED <<calib, pending>>

get_controller_index ==
    /\ Ready
    /\ LET o == Op("get_controller_index", NoArg, 0, <<>>)
       IN  IF ~check_handle
           THEN End(o, "NotOpenError", <<>>, 0, <<>>, {})
           ELSE End(o, "returned", <<>>, 0, <<>>, {Call("AotfGetInstance")})
    /\ failed' = ""
    /\ UNCHANGED <<handle, closed, calib, opened, pending>>

(***************************************************************************)
(* write and query.                                                        *)
(***************************************************************************)
\* write(msg), called by the operation o: _write(f'{msg}\r') and nothing else
write_(o, msg) ==
    /\ UNCHANGED <<handle, closed, calib, opened>>
    /\ IF ~check_handle
       THEN /\ End(o, "NotOpenError", <<>>, 0, <<>>, {})
            /\ UNCHANGED pending
            /\ failed' = ""
       ELSE \E r \in {0, 1} :
              IF r = 0
              THEN /\ End(o, "WriteError", <<>>, 0, <<Append(msg, CR)>>, {Call("AotfWrite")})
                   /\ UNCHANGED pending
                   /\ failed' = "AotfWrite"
              ELSE \E reply \in DeviceReplies(Append(msg, CR)) :
                     /\ pending' = pending \o reply
                     /\ failed' = ""
                     /\ End(o, "returned", <<>>, 0, <<Append(msg, CR)>>, {Call("AotfWrite")})

\* mutant: a failed write is swallowed and the loop starts all the same
query_polling(o, msg) ==
    /\ UNCHANGED <<handle, closed, calib, opened>>
    /\ IF ~check_handle
       THEN /\ End(o, "NotOpenError", <<>>, 0, <<>>, {})
            /\ UNCHANGED pending
            /\ failed' = ""
       ELSE \E r \in {0, 1} :
              IF r = 0
              THEN /\ UNCHANGED pending
                   /\ failed' = "AotfWrite"
                   /\ op' = o
                   /\ outcome' = "running"
                   /\ ret' = <<>>
                   /\ elapsed' = 0
                   /\ sent' = <<Append(msg, CR)>>
                   /\ tcalls' = {Call("AotfWrite")}
                   /\ pc' = "loop"
                   /\ read' = <<>>
                   /\ clock' = 0
              ELSE \E reply \in DeviceReplies(Append(msg, CR)) :
                     /\ pending' = pending \o reply
                     /\ failed' = ""
                     /\ op' = o
                     /\ outcome' = "running"
                     /\ ret' = <<>>
                     /\ elapsed' = 0
                     /\ sent' = <<Append(msg, CR)>>
                     /\ tcalls' = {Call("AotfWrite")}
                     /\ pc' = "loop"
                     /\ read' = <<>>
                     /\ clock' = 0

\* query(msg), called by the operation o: _write(f'{msg}\r'), then _loop_read starts
query_(o, msg) ==
    /\ UNCHANGED <<handle, closed, calib, opened>>
    /\ IF ~check_handle
       THEN /\ End(o, "NotOpenError", <<>>, 0, <<>>, {})
            /\ UNCHANGED pending
            /\ failed' = ""
       ELSE \E r \in {0, 1} :
              IF r = 0
              THEN /\ End(o, "WriteError", <<>>, 0, <<Append(msg, CR)>>, {Call("AotfWrite")})
                   /\ UNCHANGED pending
                   /\ failed' = "AotfWrite"
              ELSE \E reply \in DeviceReplies(Append(msg, CR)) :
                     /\ pending' = pending \o reply
                     /\ failed' = ""
                     /\ op' = o
                     /\ outcome' = "running"
                     /\ ret' = <<>>
                     /\ elapsed' = 0
                     /\ sent' = <<Append(msg, CR)>>
                     /\ tcalls' = {Call("AotfWrite")}
                     /\ pc' = "loop"
                     /\ read' = <<>>
                     /\ clock' = 0

\* _check_message_done
check_message_done(rd, msg) ==
    LET splits == split(rd)
    IN  IF splits[1] # msg THEN FALSE ELSE "*" \in Chars(splits[Len(splits)])

\* read.lstrip(f'{msg}\r\n').rstrip('\r\n* ')
StripResponse(rd, msg) == rstrip(lstrip(rd, Chars(msg \o CRLF)), {CR, LF, "*", " "})

\* mutant: the deadline is one poll interval late
DeadlinePassed_late(t) == t > TimeoutTicks + 1

\* time.perf_counter() - start > self._timeout
DeadlinePassed(t) == t > TimeoutTicks

\* the time a read takes, in poll intervals: none when the transport is
\* prompt, up to one interval when it is lazy
ReadTicks(lazy) == IF lazy THEN {0, 1} ELSE {0}

\* mutant: the deadline is tested only on the branch that sleeps
DeadlineAfterRead_skipped(t) == FALSE

\* the test of line 78 stands after the if/else: it follows a read as well
DeadlineAfterRead(t) == DeadlinePassed(t)

\* One iteration of the while loop of _loop_read.  AotfIsReadDataAvailable
\* answers no while nothing is pending; while bytes are pending it answers
\* yes, and when the transport is lazy it may also still answer no.
loop_read_(lazy) ==
    /\ pc = "loop"
    /\ UNCHANGED <<handle, closed, calib, opened, op, sent>>
    /\ \/ \* no data is available: sleep one poll interval, then check the deadline
          /\ lazy \/ pending = <<>>
          /\ UNCHANGED <<pending, failed>>
          /\ LET t == tcalls \cup {Call("AotfIsReadDataAvailable")}
             IN  IF DeadlinePassed(clock + 1)
                 THEN End(op, "timeout", <<>>, clock + 1, sent, t)
                 ELSE /\ clock' = clock + 1
                      /\ tcalls' = t
                      /\ UNCHANGED <<pc, read, outcome, ret, elapsed>>
       \/ \* data is available and AotfRead fails
          /\ pending # <<>>
          /\ UNCHANGED pending
          /\ failed' = "AotfRead"
          /\ End(op, "ReadError", <<>>, clock, sent,
                 tcalls \cup {Call("AotfIsReadDataAvailable"), Call("AotfRead")})
       \/ \* data is available: _read appends up to ReadLength bytes
          /\ pending # <<>>
          /\ UNCHANGED failed
          /\ \E n \in 1..(IF Len(pending) < ReadLength THEN Len(pending) ELSE ReadLength),
                d \in ReadTicks(lazy) :
               LET t == tcalls \cup {Call("AotfIsReadDataAvailable"), Call("AotfRead")}
                   rd == read \o Take(pending, n)
                   now == clock + d
               IN  /\ pending' = Drop(pending, n)
                   /\ IF check_message_done(rd, op.m)
                      THEN End(op, "returned", StripResponse(rd, op.m), now, sent, t)
                      ELSE IF DeadlineAfterRead(now)
                      THEN End(op, "timeout", <<>>, now, sent, t)
                      ELSE /\ read' = rd
                           /\ tcalls' = t
                           /\ clock' = now
                           /\ UNCHANGED <<pc, outcome, ret, elapsed>>

\* the transport reports pending bytes at once
loop_read == loop_read_(FALSE)

\* the transport may report pending bytes late
loop_read_lazy == loop_read_(TRUE)

query ==
    /\ Ready
    /\ \E msg \in QueryCommands : query_(Op("query", NoArg, 0, msg), msg)

write ==
    /\ Ready
    /\ \E msg \in QueryCommands : write_(Op("write", NoArg, 0, msg), msg)

get_serial == Ready /\ query_(Op("get_serial", NoArg, 0, BoardIdSerial), BoardIdSerial)

get_date == Ready /\ query_(Op("get_date", NoArg, 0, BoardIdDate), BoardIdDate)

reset == Ready /\ write_(Op("reset", NoArg, 0, ddsReset), ddsReset)

(***************************************************************************)
(* Setters.                                                                *)
(***************************************************************************)
\* the operation o ends without touching the transport
Skip(o, out) ==
    /\ End(o, out, <<>>, 0, <<>>, {})
    /\ failed' = ""
    /\ UNCHANGED <<handle, closed, calib, opened, pending>>

\* body of set_acoustic_frequency_MHz, called by the operation o
set_acoustic_frequency_MHz_(o, frequency, channel) ==
    IF ~check_channel(channel) THEN Skip(o, "ValueError")
    ELSE write_(o, FrequencyMHzCommand(frequency, channel))

\* body of set_acoustic_frequency_Hz, called by the operation o
set_acoustic_frequency_Hz_(o, frequency, channel) ==
    IF ~check_channel(channel) THEN Skip(o, "ValueError")
    ELSE write_(o, FrequencyHzCommand(frequency, channel))

\* mutant: the domain is open at its upper end
InDomain_open(p, wavelength) ==
    p.domain[1] * 100 <= Hundredths(wavelength) /\ Hundredths(wavelength) < p.domain[2] * 100

\* wavelength in portion.closed(*self._calibration.domain)
InDomain(p, wavelength) == InClosed(wavelength, p.domain[1] * 100, p.domain[2] * 100)

\* body of set_wavelength
set_wavelength_(o, wavelength, channel) ==
    IF ~check_channel(channel) THEN Skip(o, "ValueError")
    ELSE IF calib # NoCalibration /\ InDomain(calib, wavelength)
    THEN set_acoustic_frequency_MHz_(o, PolyCall(calib, wavelength), channel)
    ELSE Skip(o, "returned")

\* mutant: the largest amplitude is refused
AmplitudeInRange_open(amplitude) ==
    0 <= Hundredths(amplitude) /\ Hundredths(amplitude) < amplitude_int_max * 100

\* amplitude in portion.closed(0, self._amplitude_int_max)
AmplitudeInRange(amplitude) == InClosed(amplitude, 0, amplitude_int_max * 100)

\* body of set_amplitude_int, called by the operation o
set_amplitude_int_(o, amplitude, channel) ==
    IF ~check_channel(channel) THEN Skip(o, "ValueError")
    ELSE IF AmplitudeInRange(amplitude)
    THEN write_(o, AmplitudeCommand(amplitude, channel))
    ELSE Skip(o, "returned")

\* self._amplitude_int_max * amplitude / 100: true division, a float
PercentToInt(amplitude) == PyFloat((amplitude_int_max * Hundredths(amplitude)) \div 100)

\* body of set_amplitude_percent, called by the operation o
set_amplitude_percent_(o, amplitude, channel) ==
    set_amplitude_int_(o, PercentToInt(amplitude), channel)

set_acoustic_frequency ==
    /\ Ready
    /\ \E f \in Frequencies, c \in Channels :
         set_acoustic_frequency_Hz_(Op("set_acoustic_frequency", f, c, <<>>), f, c)

set_acoustic_frequency_MHz ==
    /\ Ready
    /\ \E f \in Frequencies, c \in Channels :
         set_acoustic_frequency_MHz_(Op("set_acoustic_frequency_MHz", f, c, <<>>), f, c)

set_acoustic_frequency_Hz ==
    /\ Ready
    /\ \E f \in Frequencies, c \in Channels :
         set_acoustic_frequency_Hz_(Op("set_acoustic_frequency_Hz", f, c, <<>>), f, c)

set_wavelength ==
    /\ Ready
    /\ \E w \in Wavelengths, c \in Channels :
         set_wavelength_(Op("set_wavelength", w, c, <<>>), w, c)

set_amplitude_int ==
    /\ Ready
    /\ \E a \in AmplitudeInts, c \in Channels :
         set_amplitude_int_(Op("set_amplitude_int", a, c, <<>>), a, c)

set_amplitude_percent ==
    /\ Ready
    /\ \E a \in Percents, c \in Channels :
         set_amplitude_percent_(Op("set_amplitude_percent", a, c, <<>>), a, c)

set_amplitude ==
    /\ Ready
    /\ \E a \in Percents, c \in Channels :
         set_amplitude_percent_(Op("set_amplitude", a, c, <<>>), a, c)

\* mutant: an unknown key clears the active calibration
set_calibration_clearing ==
    /\ Ready
    /\ \E calibration_id \in CalibrationKeys :
         /\ calib' = IF calibration_id \in calib_ids THEN Polynomial(calibration_id)
                     ELSE NoCalibration
         /\ End(Op("calibration", NoArg, 0, <<calibration_id>>), "returned", <<>>, 0, <<>>, {})
    /\ failed' = ""
    /\ UNCHANGED <<handle, closed, opened, pending>>

\* the calibration setter
set_calibration ==
    /\ Ready
    /\ \E calibration_id \in CalibrationKeys :
         /\ calib' = IF calibration_id \in calib_ids THEN Polynomial(calibration_id) ELSE calib
         /\ End(Op("calibration", NoArg, 0, <<calibration_id>>), "returned", <<>>, 0, <<>>, {})
    /\ failed' = ""
    /\ UNCHANGED <<handle, closed, opened, pending>>

Next ==
    \/ open
    \/ close
    \/ get_controller_index
    \/ query
    \/ write
    \/ loop_read
    \/ get_serial
    \/ get_date
    \/ reset
    \/ set_acoustic_frequency
    \/ set_acoustic_frequency_MHz
    \/ set_acoustic_frequency_Hz
    \/ set_calibration
    \/ set_wavelength
    \/ set_amplitude_int
    \/ set_amplitude_percent
    \/ set_amplitude

Spec == Init /\ [][Next]_vars

\* open() called by a caller that holds no handle
open_unheld == handle = NoHandle /\ open

\* the query protocol alone, over a transport that may deliver late, driven
\* by a caller that opens only while it holds no handle
NextProtocol ==
    \/ open_unheld
    \/ close
    \/ query
    \/ get_serial
    \/ get_date
    \/ loop_read_lazy

SpecProtocol == Init /\ [][NextProtocol]_vars

\* the same, with the loop of a running query always taking its next iteration
SpecProtocolFair == SpecProtocol /\ WF_vars(loop_read_lazy)

(***************************************************************************)
(* Properties.                                                             *)
(***************************************************************************)
\* a step in which an operation is called
Called(name) == pc = "idle" /\ op'.name = name

ValidChannel(c) == 0 <= c /\ c < nchannels

\* the public operations other than open
GuardedOps ==
    {"query", "write", "close", "get_controller_index", "get_serial", "get_date", "reset",
     "set_acoustic_frequency_Hz", "set_acoustic_frequency_MHz", "set_wavelength",
     "set_amplitude_int", "set_amplitude_percent"}

\* C1: while no handle is held, every operation other than open fails with
\* the not-open error and makes no transport call.
C1_HandleGuard ==
    [][(pc = "idle" /\ handle = NoHandle /\ op'.name \in GuardedOps)
         => (outcome' = "NotOpenError" /\ tcalls' = {})]_vars

\* C2: with a handle held, set_acoustic_frequency_Hz(f, c) fails with the
\* invalid-channel error if and only if c < 0 or c >= 8.
C2_ChannelValidation ==
    [][(Called("set_acoustic_frequency_Hz") /\ handle # NoHandle)
         => ((outcome' = "ValueError") <=> (op'.c < 0 \/ op'.c >= 8))]_vars

\* C5: close() with a handle held asks the transport to close that handle;
\* when the transport refuses, close fails and the same handle stays held;
\* when it succeeds, no handle is held.
C5_CloseKeepsHandleOnFailure ==
    [][(Called("close") /\ handle # NoHandle)
         => /\ tcalls' = {[fn |-> "AotfClose", h |-> handle]}
            /\ \/ outcome' = "CloseError" /\ handle' = handle
               \/ outcome' = "returned" /\ handle' = NoHandle]_vars

\* C5 witness: a close was refused by the transport and the handle is still held
C5_Witness ==
    /\ op.name = "close"
    /\ outcome = "CloseError"
    /\ handle # NoHandle
    /\ tcalls = {[fn |-> "AotfClose", h |-> handle]}

\* C6: after a successful close, until the next successful open, every
\* operation except open fails with the not-open error and sends nothing;
\* while a handle is held no operation is refused with the not-open error.
C6_ClosedUntilReopened ==
    /\ (closed /\ pc = "idle" /\ op.name \in GuardedOps
          /\ ~(op.name = "close" /\ outcome = "returned"))
         => (outcome = "NotOpenError" /\ sent = <<>> /\ tcalls = {})
    /\ (handle # NoHandle /\ op.name # "open") => outcome # "NotOpenError"

QueryOps == {"query", "get_serial", "get_date"}

Fns(t) == {c.fn : c \in t}

\* C3: when the transport answers the written command C with C CR LF "done"
\* CR LF "*" CR LF, and all of it is read before the timeout, query(C)
\* returns exactly "done".
C3_FramingRoundTrip ==
    [][(/\ pc = "loop"
        /\ pc' = "idle"
        /\ read \o pending = Frame(op.m, DonePayload)
        /\ outcome' # "ReadError"
        /\ ~(outcome' = "timeout" /\ pending' # <<>>))
         => (outcome' = "returned" /\ ret' = DonePayload)]_vars

\* C4: when the transport never signals data, query does not run past the
\* deadline: it returns the empty string, without an error, no later than
\* one poll interval after the timeout.
C4_SilentTimeout ==
    (/\ op.name \in QueryOps
     /\ outcome \notin {"NotOpenError", "WriteError"}
     /\ "AotfRead" \notin Fns(tcalls))
      => IF pc = "loop"
         THEN clock <= TimeoutTicks
         ELSE outcome = "timeout" /\ ret = <<>> /\ elapsed <= TimeoutTicks + 1

\* C4 witness: a query over a silent transport has returned the empty string
\* one poll interval after the timeout
C4_Witness ==
    /\ op.name = "get_serial"
    /\ pc = "idle"
    /\ outcome = "timeout"
    /\ Fns(tcalls) = {"AotfWrite", "AotfIsReadDataAvailable"}
    /\ ret = <<>>
    /\ elapsed = TimeoutTicks + 1

MHz200on3 == <<"D", "d", "s", " ", "F", "r", "e", "q", "u", "e", "n", "c", "y", " ", "3", " ", "2", "0", "0", ".", "0", "\r">>
Hz200on3 == <<"D", "d", "s", " ", "F", "r", "e", "q", "u", "e", "n", "c", "y", " ", "3", " ", "!", "2", "0", "0", ".", "0", "\r">>

\* C7: with a handle held and a channel in 0..7, set_acoustic_frequency_MHz
\* sends the one line "Dds Frequency <c> <f>" CR and set_acoustic_frequency_Hz
\* the one line "Dds Frequency <c> !<f>" CR; like reset and write they make
\* no transport call but that write and do not wait.
C7_FrequencyWriteOnly ==
    [][(pc = "idle" /\ handle # NoHandle)
         => /\ (op'.name = "set_acoustic_frequency_MHz" /\ ValidChannel(op'.c))
                 => /\ sent' = <<DdsFrequency \o IntStr(op'.c) \o <<" ">> \o Format(op'.a)
                                   \o <<CR>>>>
                    /\ (op'.a = PyFloat(20000) /\ op'.c = 3) => sent' = <<MHz200on3>>
            /\ (op'.name = "set_acoustic_frequency_Hz" /\ ValidChannel(op'.c))
                 => /\ sent' = <<DdsFrequency \o IntStr(op'.c) \o <<" ", "!">> \o Format(op'.a)
                                   \o <<CR>>>>
                    /\ (op'.a = PyFloat(20000) /\ op'.c = 3) => sent' = <<Hz200on3>>
            /\ (\/ op'.name \in {"reset", "write"}
                \/ /\ op'.name \in {"set_acoustic_frequency_MHz", "set_acoustic_frequency_Hz"}
                   /\ ValidChannel(op'.c))
                 => /\ pc' = "idle"
                    /\ Len(sent') = 1
                    /\ tcalls' = {[fn |-> "AotfWrite", h |-> handle]}]_vars

\* C7 witness: set_acoustic_frequency_Hz(200.0, 3) has written its line
C7_Witness ==
    /\ op = Op("set_acoustic_frequency_Hz", PyFloat(20000), 3, <<>>)
    /\ outcome = "returned"
    /\ sent = <<Hz200on3>>

Amplitude8000on0 == <<"D", "d", "s", " ", "A", "m", "p", "l", "i", "t", "u", "d", "e", " ", "0", " ", "8", "0", "0", "0", "\r">>

\* C8: with a handle held and a valid channel, set_amplitude_int(a, c) sends
\* a command if and only if 0 <= a <= 16383; the command is "Dds Amplitude
\* <c> <a>" with a unchanged, and outside the range nothing is sent.
C8_AmplitudeIntDomain ==
    [][(Called("set_amplitude_int") /\ handle # NoHandle /\ ValidChannel(op'.c))
         => LET a == op'.a.v
            IN  /\ (sent' # <<>>) <=> (0 <= a /\ a <= 16383)
                /\ sent' # <<>>
                     => sent' = <<DdsAmplitude \o IntStr(op'.c) \o <<" ">> \o IntStr(a)
                                    \o <<CR>>>>
                /\ sent' = <<>> => tcalls' = {}
                /\ (a = 8000 /\ op'.c = 0) => sent' = <<Amplitude8000on0>>]_vars

\* C8 witness: the largest amplitude has been sent
C8_Witness ==
    /\ op = Op("set_amplitude_int", PyInt(16383), 7, <<>>)
    /\ outcome = "returned"
    /\ sent # <<>>

Digits == {Digit(d) : d \in 0..9}

DigitVal(ch) == CHOOSE d \in 0..9 : Digit(d) = ch

RECURSIVE StrNat(_)
StrNat(t) == IF t = <<>> THEN 0 ELSE 10 * StrNat(SubSeq(t, 1, Len(t) - 1)) + DigitVal(t[Len(t)])

\* the value text of a "Dds Amplitude <c> <value>" CR line
AmplitudeText(line, c) ==
    SubSeq(line, Len(DdsAmplitude) + Len(IntStr(c)) + 2, Len(line) - 1)

\* C9: for a percent p in [0, 100] and a valid channel, set_amplitude_percent
\* sends "Dds Amplitude <c> <n>" with n an integer in 0..16383; for p = 50
\* the value is 8191.
C9_PercentInteger ==
    [][(/\ Called("set_amplitude_percent")
        /\ handle # NoHandle
        /\ ValidChannel(op'.c)
        /\ 0 <= op'.a.v /\ op'.a.v <= 100)
         => /\ Len(sent') = 1
            /\ StartsWith(sent'[1], DdsAmplitude \o IntStr(op'.c) \o <<" ">>)
            /\ LET n == AmplitudeText(sent'[1], op'.c)
               IN  /\ n # <<>>
                   /\ Chars(n) \subseteq Digits
                   /\ StrNat(n) <= 16383
                   /\ op'.a.v = 50 => n = <<"8", "1", "9", "1">>]_vars

Wavelength550on0 == <<"D", "d", "s", " ", "F", "r", "e", "q", "u", "e", "n", "c", "y", " ", "0", " ", "5", "5", "0", ".", "0", "\r">>
Wavelength600on0 == <<"D", "d", "s", " ", "F", "r", "e", "q", "u", "e", "n", "c", "y", " ", "0", " ", "6", "0", "0", ".", "0", "\r">>

\* C10: with a handle held and a valid channel, set_wavelength(w, c) sends a
\* command if and only if a calibration is active and w lies in its closed
\* domain; the command is the MHz frequency command for poly(w); otherwise
\* nothing is sent and no error is raised.  With domain [500, 600] and the
\* identity, 550 on channel 0 sends the value 550 and 700 sends nothing.
C10_WavelengthGating ==
    [][(Called("set_wavelength") /\ handle # NoHandle /\ ValidChannel(op'.c))
         => LET w == op'.a.v
                inside == /\ calib # NoCalibration
                          /\ calib.domain[1] <= w
                          /\ w <= calib.domain[2]
                f == PyFloat((calib.coef[1] + calib.coef[2] * w) * 100)
            IN  /\ (sent' # <<>>) <=> inside
                /\ inside => sent' = <<DdsFrequency \o IntStr(op'.c) \o <<" ">> \o Format(f)
                                         \o <<CR>>>>
                /\ ~inside => (outcome' = "returned" /\ tcalls' = {})
                /\ (calib = Polynomial("RF1") /\ op'.c = 0 /\ w = 550)
                     => sent' = <<Wavelength550on0>>
                /\ (calib = Polynomial("RF1") /\ op'.c = 0 /\ w = 700) => sent' = <<>>]_vars

\* C10 witness: the upper end of the domain has been sent
C10_Witness ==
    /\ op = Op("set_wavelength", PyInt(600), 0, <<>>)
    /\ calib = Polynomial("RF1")
    /\ outcome = "returned"
    /\ sent = <<Wavelength600on0>>

\* C11: assigning the active calibration with a key that is not in the
\* table raises no error and leaves the active calibration as it was;
\* assigning a key of the table makes that entry the active calibration.
C11_UnknownCalibrationKey ==
    [][Called("calibration")
         => LET key == op'.m[1]
            IN  /\ outcome' = "returned"
                /\ key \notin DOMAIN calibration => calib' = calib
                /\ key \in DOMAIN calibration
                     => /\ calib'.coef = calibration[key].coeffs
                        /\ calib'.domain = calibration[key].domain]_vars

\* C11 witness: an unknown key was assigned while RF1 was active, and RF1 still is
C11_Witness ==
    /\ op.name = "calibration"
    /\ op.m = <<"XX">>
    /\ outcome = "returned"
    /\ calib = Polynomial("RF1")

\* C12: when the transport refuses an open, open fails with the error for
\* the requested index and the held handle is what it was before; an engine
\* that held no handle still holds none, and every other operation on it
\* keeps failing with the not-open error.
C12_FailedOpenStoresNothing ==
    [][/\ (Called("open") /\ failed' = "AotfOpen")
            => /\ outcome' = "OpenError"
               /\ tcalls' = {[fn |-> "AotfOpen", h |-> op'.a.v]}
               /\ handle' = handle
       /\ (/\ pc = "idle"
           /\ op.name = "open"
           /\ outcome = "OpenError"
           /\ handle = NoHandle
           /\ op'.name \in GuardedOps)
            => (outcome' = "NotOpenError" /\ tcalls' = {})]_vars

\* C13: a transport write failure during query or write, and a transport
\* read failure during query, ends the operation with that error at the
\* failing call: no poll and no read follows a failed write, the loop does
\* not go on after a failed read, and the result is never the timeout's.
C13_TransportErrorsSurface ==
    /\ failed = "AotfWrite"
         => /\ outcome = "WriteError"
            /\ pc = "idle"
            /\ Fns(tcalls) = {"AotfWrite"}
            /\ Len(sent) = 1
    /\ failed = "AotfRead"
         => /\ outcome = "ReadError"
            /\ pc = "idle"
            /\ op.name \in QueryOps
    /\ outcome = "timeout" => failed = ""

\* C13 witness: the read of a get_serial failed and the query ended with the error
C13_Witness ==
    /\ op.name = "get_serial"
    /\ failed = "AotfRead"
    /\ outcome = "ReadError"
    /\ pc = "idle"
    /\ handle # NoHandle

\* the setters that take a channel
ChannelSetters ==
    {"set_acoustic_frequency_Hz", "set_acoustic_frequency_MHz", "set_wavelength",
     "set_amplitude_int", "set_amplitude_percent"}

\* the line is a Dds command for one of the channels 0..7
NamesChannel(line, prefix) ==
    \E c \in 0..7 : StartsWith(line, prefix \o IntStr(c) \o <<" ">>)

\* C14: every "Dds Frequency" and "Dds Amplitude" command written to the
\* transport names a channel in 0..7: a setter called with a channel outside
\* 0..7 is rejected before any transport interaction.
C14_ChannelsInRange ==
    /\ \A i \in 1..Len(sent) : \A prefix \in {DdsFrequency, DdsAmplitude} :
         StartsWith(sent[i], prefix) => NamesChannel(sent[i], prefix)
    /\ (op.name \in ChannelSetters /\ ~(0 <= op.c /\ op.c <= 7))
         => (outcome \in {"ValueError", "NotOpenError"} /\ tcalls = {})

\* the buffer accumulated by the loop once this step's read is appended
Accumulated == read \o Take(pending, Len(pending) - Len(pending'))

\* the first line is the command and the last line contains the asterisk
FrameComplete(buf, msg) ==
    LET lines == split(buf)
    IN  lines[1] = msg /\ "*" \in Chars(lines[Len(lines)])

\* C15: query returns a completed response only when the accumulated
\* buffer, split on CR LF, has a first line equal to the command and a last
\* line containing "*"; when the buffer satisfies that after a read, query
\* returns at that read; and a response whose final bytes are "*" CR LF is
\* recognised as complete when all of it has been read.
C15_CompletionDetection ==
    [][pc = "loop"
         => /\ (pc' = "idle" /\ outcome' = "returned") => FrameComplete(Accumulated, op.m)
            /\ (pending' # pending /\ FrameComplete(Accumulated, op.m))
                 => (pc' = "idle" /\ outcome' = "returned")
            /\ (pending' # pending /\ \E p \in Payloads : Accumulated = Frame(op.m, p))
                 => (pc' = "idle" /\ outcome' = "returned")]_vars

\* C16: the timeout bounds the query loop whatever the transport delivers:
\* the deadline is tested at the end of every iteration, after a read as
\* well as after a sleep, so the loop never goes on once the time since the
\* start of the query exceeds the timeout, and the query then returns the
\* empty string.
C16_TimeoutBoundsLoop ==
    /\ pc = "loop" => clock <= TimeoutTicks
    /\ (pc = "idle" /\ outcome = "timeout")
         => /\ op.name \in QueryOps
            /\ ret = <<>>
            /\ TimeoutTicks < elapsed
            /\ elapsed <= TimeoutTicks + 1

\* C16 witness: a query that kept reading bytes which formed no complete
\* frame has returned the empty string after the timeout
C16_Witness ==
    /\ op.name = "query"
    /\ pc = "idle"
    /\ outcome = "timeout"
    /\ "AotfRead" \in Fns(tcalls)
    /\ ret = <<>>
    /\ elapsed = TimeoutTicks + 1

\* C16, termination: under SpecProtocolFair a running query always ends, with
\* a response, the timeout result or the read error.
C16_Terminates ==
    (pc = "loop") ~> (pc = "idle" /\ outcome \in {"returned", "timeout", "ReadError"})

\* C17: the engine owns one open handle at a time: every handle the
\* transport has handed out and that has not been closed is the handle the
\* engine holds; a successful open while a handle is held does not leave the
\* earlier handle open and unreferenced.
C17_SingleOpenHandle ==
    \A h \in opened : h = handle

EndsWith(s, t) == Len(s) >= Len(t) /\ SubSeq(s, Len(s) - Len(t) + 1, Len(s)) = t

IsInfix(t, s) == \E i \in 0..(Len(s) - Len(t)) : SubSeq(s, i + 1, i + Len(t)) = t

\* the bytes the device sends in answer to the running query
OwnResponse == Frame(op.m, DonePayload)

\* C18: a query is isolated from earlier exchanges: bytes left unread in the
\* transport by an earlier command do not prevent a query whose own response
\* arrives from completing, and are not returned in its payload.  Once the
\* own response has been read through its completion marker, behind stale
\* bytes, the query returns, and its payload is made of bytes of that response.
C18_QueryIsolation ==
    [][(/\ pc = "loop"
        /\ pending' # pending
        /\ Len(pending') <= Len(CRLF)
        /\ EndsWith(read \o pending, OwnResponse)
        /\ Len(read \o pending) > Len(OwnResponse))
         => /\ pc' = "idle"
            /\ outcome' = "returned"
            /\ IsInfix(ret', OwnResponse)]_vars

\* C19: only open and close change the held handle and only the calibration
\* assignment changes the active calibration, however an operation ends; a
\* transport write or read failure leaves the handle held, and open and
\* close leave the active calibration selected.
C19_FrameOfHandleAndCalibration ==
    [][/\ op'.name \notin {"open", "close"} => handle' = handle
       /\ op'.name # "calibration" => calib' = calib
       /\ failed' \in {"AotfWrite", "AotfRead"} => (handle' = handle /\ handle' # NoHandle)]_vars

\* C19 witness: the read of a query failed while a calibration was active;
\* the handle is still held and the calibration still selected
C19_Witness ==
    /\ op.name \in QueryOps
    /\ outcome = "ReadError"
    /\ failed = "AotfRead"
    /\ handle # NoHandle
    /\ calib = Polynomial("RF2")

=============================================================================
